---- MODULE Spec2Model ----
(***************************************************************************)
(* Model of ClintNgyn/WebScraper: the fetch cache of                       *)
(* scraper/web_scraper.py (WebScraper.fetch_all) and the record extraction *)
(* of main.py (extract_store, display_latest_deals, get_categories,        *)
(* log_deal_information).                                                  *)
(***************************************************************************)
EXTENDS Integers, Sequences, FiniteSets, TLC

(***************************************************************************)
(* Bounds of the model.                                                    *)
(***************************************************************************)
\* main() accepts 1..10 pages; the model explores 1..MaxPages of them.
MaxPages == 3
\* time() readings are taken at the multiples 0..MaxPeriods of the TTL after the
\* first reading, and one second before and after each.
MaxPeriods == 2
\* Number of refresh cycles a behaviour may start.
MaxCycles == 3
\* The earliest reading of time() (seconds since 1970; 2023-11-14 22:13:20 UTC).
Epoch == 1700000000

\* web_scraper.py line 24: "only re-fetches data every 120s".
TTL == 120

VARIABLES
    paths,            \* self.paths: the configured page targets, in order
    soups,            \* self.soups: path -> parsed document
    last_fetch_time,  \* self.last_fetch_time
    cycles,           \* refresh cycles started so far (identity of the documents)
    now,              \* the last reading of time() (current_time)
    clock_ok,         \* every reading so far was >= TTL and none went backwards
    outcome,          \* how the last fetch_all ended: "init", "returned", "raised"
    result,           \* the mapping the last fetch_all returned
    requests,         \* the GETs the last fetch_all issued, in order
    received,         \* the response to each of them
    pre_soups,        \* self.soups as it was when the last fetch_all began
    pre_last,         \* self.last_fetch_time as it was when the last fetch_all began
    prev_outcome,     \* outcome of the call before the last one
    prev_result,      \* result of the call before the last one
    deal,             \* a listing node handed to extract_store
    store,            \* what extract_store returned for it (<<>> before the call)
    docs,             \* the documents fetch_all returns to a view, in dict order
    displayed,        \* what display_latest_deals did with them
    logged            \* what log_deal_information did with them

cacheVars == <<paths, soups, last_fetch_time, cycles, now, clock_ok, outcome, result,
               requests, received, pre_soups, pre_last, prev_outcome, prev_result>>
storeVars == <<deal, store>>
viewVars == <<docs, displayed, logged>>
vars == <<cacheVars, storeVars, viewVars>>

(***************************************************************************)
(* scraper/web_scraper.py                                                  *)
(***************************************************************************)

\* main.py lines 30-32: paths "/hot-deals-f9/1" .. "/hot-deals-f9/max_pages";
\* a path is modelled by its page number.
ConfiguredPaths(max_pages) == [i \in 1..max_pages |-> i]

\* main.py lines 20-26: 0 < max_pages <= 10 (here: <= MaxPages).
PageCounts == 1..MaxPages

\* The empty dict().
EmptyDict == <<>>

\* What requests.get + raise_for_status can do for one URL: a usable response,
\* an HTTPError (non-success status) or another RequestException (transport).
Responses == {"ok", "http_error", "transport_error"}

\* What the network answers to the n targets of one cycle.  The loop stops at
\* the first failure, so the answers that would follow one are left at "ok".
ResponseVectors(n) ==
    {r \in [1..n -> Responses] : \A i, j \in 1..n : (i < j /\ r[i] # "ok") => r[j] = "ok"}

\* Seconds elapsed since Epoch at a reading: near the multiples of the TTL.
ClockOffsets ==
    {d \in 0..(MaxPeriods * TTL + 1) :
        \E k \in 0..MaxPeriods, j \in {-1, 0, 1} : d = k * TTL + j}

\* web_scraper.py line 22: the readings of time().  time() is the wall clock,
\* which can be set back: a later reading may be smaller than an earlier one.
ClockReadings == {Epoch + d : d \in ClockOffsets}

\* Fault variant of the freshness test: strictly more than the TTL.
NeedsRefreshStrict(cache, last, current_time) ==
    \/ DOMAIN cache = {}
    \/ current_time - last > TTL

\* web_scraper.py line 24: not self.soups or (current_time - last_fetch_time >= 120)
NeedsRefresh(cache, last, current_time) ==
    \/ DOMAIN cache = {}
    \/ current_time - last >= TTL

\* web_scraper.py line 26: self.soups = dict()
ClearedCache(cache) == EmptyDict

\* dict item assignment d[k] = v
DictSet(d, k, v) == [x \in (DOMAIN d) \cup {k} |-> IF x = k THEN v ELSE d[x]]

\* Fault variant of the loop: a failed request is skipped and the loop goes on.
RECURSIVE FetchPathsContinue(_, _, _, _, _)
FetchPathsContinue(i, acc, ps, responses, doc) ==
    IF i > Len(ps)
    THEN acc
    ELSE LET sent == [acc EXCEPT !.requests = Append(@, ps[i]),
                                 !.received = Append(@, responses[i])]
         IN  IF responses[i] = "ok"
             THEN FetchPathsContinue(i + 1,
                     [sent EXCEPT !.soups = DictSet(@, ps[i], doc)], ps, responses, doc)
             ELSE FetchPathsContinue(i + 1, sent, ps, responses, doc)

\* Fault variant of the loop: a failed request ends the loop without raising.
RECURSIVE FetchPathsBreak(_, _, _, _, _)
FetchPathsBreak(i, acc, ps, responses, doc) ==
    IF i > Len(ps)
    THEN acc
    ELSE LET sent == [acc EXCEPT !.requests = Append(@, ps[i]),
                                 !.received = Append(@, responses[i])]
         IN  IF responses[i] = "ok"
             THEN FetchPathsBreak(i + 1,
                     [sent EXCEPT !.soups = DictSet(@, ps[i], doc)], ps, responses, doc)
             ELSE sent

\* web_scraper.py lines 27-35: the loop over self.paths from index i on.
\* acc = [soups, requests, received, raised]; doc is the document a successful
\* GET of this cycle parses to.
RECURSIVE FetchPaths(_, _, _, _, _)
FetchPaths(i, acc, ps, responses, doc) ==
    IF i > Len(ps)
    THEN acc
    ELSE LET sent == [acc EXCEPT !.requests = Append(@, ps[i]),
                                 !.received = Append(@, responses[i])]
         IN  IF responses[i] = "ok"
             THEN FetchPaths(i + 1,
                     [sent EXCEPT !.soups = DictSet(@, ps[i], doc)], ps, responses, doc)
             ELSE [sent EXCEPT !.raised = TRUE]

\* Fault variant of line 37: the timestamp is written although the loop raised.
StampAfterLoopAlways(raised, last, current_time) == current_time

\* web_scraper.py line 37: reached only when the loop did not raise.
StampAfterLoop(raised, last, current_time) ==
    IF raised THEN last ELSE current_time

\* web_scraper.py lines 22-40: one call of fetch_all, as a function of the
\* object's fields, the clock reading and the responses the network would give.
FetchAllCall(cache, last, ps, current_time, responses, doc) ==
    IF NeedsRefresh(cache, last, current_time)
    THEN LET run == FetchPaths(1, [soups |-> ClearedCache(cache), requests |-> <<>>,
                                   received |-> <<>>, raised |-> FALSE],
                               ps, responses, doc)
         IN  [soups |-> run.soups,
              last_fetch_time |-> StampAfterLoop(run.raised, last, current_time),
              requests |-> run.requests,
              received |-> run.received,
              raised |-> run.raised,
              refreshed |-> TRUE]
    ELSE [soups |-> cache, last_fetch_time |-> last, requests |-> <<>>,
          received |-> <<>>, raised |-> FALSE, refreshed |-> FALSE]

\* WebScraper.__init__ (lines 10-14) with the paths main() builds.
CacheInit ==
    /\ paths \in {ConfiguredPaths(n) : n \in PageCounts}
    /\ soups = EmptyDict
    /\ last_fetch_time = 0
    /\ cycles = 0
    /\ now = 0
    /\ clock_ok = TRUE
    /\ outcome = "init"
    /\ result = EmptyDict
    /\ requests = <<>>
    /\ received = <<>>
    /\ pre_soups = EmptyDict
    /\ pre_last = 0
    /\ prev_outcome = "init"
    /\ prev_result = EmptyDict

\* WebScraper.fetch_all (lines 16-40), called by a caller that catches FetchError.
FetchAll ==
    \E current_time \in ClockReadings, responses \in ResponseVectors(Len(paths)) :
        LET call == FetchAllCall(soups, last_fetch_time, paths, current_time,
                                 responses, cycles + 1)
        IN  /\ call.refreshed => cycles < MaxCycles
            /\ soups' = call.soups
            /\ last_fetch_time' = call.last_fetch_time
            /\ cycles' = IF call.refreshed THEN cycles + 1 ELSE cycles
            /\ now' = current_time
            /\ clock_ok' = (clock_ok /\ current_time >= TTL
                                     /\ (outcome # "init" => current_time >= now))
            /\ outcome' = IF call.raised THEN "raised" ELSE "returned"
            /\ result' = IF call.raised THEN EmptyDict ELSE call.soups
            /\ requests' = call.requests
            /\ received' = call.received
            /\ pre_soups' = soups
            /\ pre_last' = last_fetch_time
            /\ prev_outcome' = outcome
            /\ prev_result' = result
            /\ paths' = paths
            /\ UNCHANGED <<storeVars, viewVars>>

(***************************************************************************)
(* Text and markup nodes                                                   *)
(***************************************************************************)

\* A str is a sequence of characters.  An optional value (the result of
\* select_one, or an attribute) is None or a one-element sequence.
None == <<>>
Some(x) == <<x>>

\* The absent-marker 'n/a' of main.py.
NA == <<"n", "/", "a">>

\* main.py line 29: base_url, kept as one symbol.
BaseUrl == <<"https://forums.redflagdeals.com">>

\* The whitespace str.strip() removes, as far as the model's alphabets hold it.
Whitespace == {" ", "\n"}

RECURSIVE LStrip(_)
LStrip(s) == IF s # <<>> /\ Head(s) \in Whitespace THEN LStrip(Tail(s)) ELSE s

RECURSIVE RStrip(_)
RStrip(s) ==
    IF s # <<>> /\ s[Len(s)] \in Whitespace THEN RStrip(SubSeq(s, 1, Len(s) - 1)) ELSE s

\* str.strip()
Strip(s) == RStrip(LStrip(s))

\* str.lower() on the letters the model uses.
LowerChar(c) ==
    CASE c = "T" -> "t"
      [] c = "F" -> "f"
      [] OTHER -> c

Lower(s) == [i \in 1..Len(s) |-> LowerChar(s[i])]

\* All strings over alphabet of length at most n.
StringsUpTo(alphabet, n) == UNION {[1..k -> alphabet] : k \in 0..n}

(***************************************************************************)
(* main.py: extract_store                                                  *)
(***************************************************************************)

\* The lazy group (.*?) followed by \]: from position j on, stop at the first
\* "]"; "." does not match a line break.  0 when the pattern cannot end.
RECURSIVE GroupEnd(_, _)
GroupEnd(text, j) ==
    IF j > Len(text) THEN 0
    ELSE IF text[j] = "]" THEN j
    ELSE IF text[j] = "\n" THEN 0
    ELSE GroupEnd(text, j + 1)

\* re.search(r"\[(.*?)\]", text) (main.py lines 66-69): the leftmost position
\* at which the pattern matches; None, or Some(group(1)).
RECURSIVE BracketSearch(_, _)
BracketSearch(text, i) ==
    IF i > Len(text) THEN None
    ELSE IF text[i] = "[" /\ GroupEnd(text, i + 1) # 0
         THEN Some(SubSeq(text, i + 1, GroupEnd(text, i + 1) - 1))
         ELSE BracketSearch(text, i + 1)

\* Fault variant of extract_store: the title pattern is tried before the retailer field.
extract_store_title_first(d) ==
    IF d.topictitle # None /\ BracketSearch(Strip(d.topictitle[1]), 1) # None
    THEN BracketSearch(Strip(d.topictitle[1]), 1)[1]
    ELSE IF d.retailer # None THEN Strip(d.retailer[1]) ELSE NA

\* main.py lines 55-74.  d.retailer is select_one(".topictitle_retailer") and
\* d.topictitle is select_one(".topictitle"): None or Some(text).
extract_store(d) ==
    IF d.retailer # None
    THEN Strip(d.retailer[1])
    ELSE IF d.topictitle # None /\ BracketSearch(Strip(d.topictitle[1]), 1) # None
         THEN BracketSearch(Strip(d.topictitle[1]), 1)[1]
         ELSE NA

(***************************************************************************)
(* main.py: the views                                                      *)
(***************************************************************************)

\* soup.select("ul.topics li.row.topic:not(.sticky)") on one document: a
\* document is the sequence of its li.row.topic nodes.
SelectDeals(page) == SelectSeq(page, LAMBDA d : ~d.sticky)

\* main.py lines 80-83 (also 136-139, 160-163, 197-200): deals over
\* soups.values(), in dict order.
RECURSIVE CollectDeals(_)
CollectDeals(pages) ==
    IF pages = <<>> THEN <<>>
    ELSE SelectDeals(Head(pages)) \o CollectDeals(Tail(pages))

\* "x.text.strip() if x else 'n/a'" (main.py lines 106-112).
TextOrNA(node) == IF node # None THEN Strip(node[1]) ELSE NA

\* title["href"]: a Tag without that attribute raises KeyError.
HasHref(title) == title[1].href # None

\* main.py lines 92-114: the record printed for one deal.  Line 94 reads
\* title["href"] whenever title is not None.
DealInfo(d) ==
    IF d.link # None /\ ~HasHref(d.link)
    THEN [raised |-> "KeyError", info |-> None]
    ELSE [raised |-> "none",
          info |-> Some([store |-> extract_store(d),
                         product |-> IF d.link # None THEN Strip(d.link[1].text) ELSE NA,
                         votes |-> TextOrNA(d.votes),
                         username |-> TextOrNA(d.username),
                         category |-> TextOrNA(d.category),
                         timestamp |-> TextOrNA(d.timestamp),
                         replies |-> TextOrNA(d.replies),
                         views |-> TextOrNA(d.views),
                         url |-> IF d.link # None
                                 THEN BaseUrl \o Strip(d.link[1].href[1])
                                 ELSE NA])]

\* main.py lines 90-116: the loop; an exception ends it.
RECURSIVE PrintDeals(_, _)
PrintDeals(deals, printed) ==
    IF deals = <<>> THEN [printed |-> printed, raised |-> "none"]
    ELSE LET one == DealInfo(Head(deals))
         IN  IF one.raised # "none"
             THEN [printed |-> printed, raised |-> one.raised]
             ELSE PrintDeals(Tail(deals), Append(printed, one.info[1]))

\* main.py lines 77-118.
display_latest_deals(pages) == PrintDeals(CollectDeals(pages), <<>>)

\* main.py lines 121-131: category text -> number of deals.
get_categories(deals) ==
    LET withCat == {i \in 1..Len(deals) : deals[i].category # None}
        keys == {Strip(deals[i].category[1]) : i \in withCat}
    IN  [k \in keys |->
            Cardinality({i \in withCat : Strip(deals[i].category[1]) = k})]

\* Code points of the model's characters, the order sorted() compares by.
CodePoint(c) ==
    CASE c = "\n" -> 10
      [] c = " " -> 32
      [] c = "F" -> 70
      [] c = "T" -> 84
      [] c = "f" -> 102
      [] c = "t" -> 116
      [] OTHER -> 127

RECURSIVE StrLess(_, _)
StrLess(a, b) ==
    IF b = <<>> THEN FALSE
    ELSE IF a = <<>> THEN TRUE
    ELSE IF CodePoint(Head(a)) # CodePoint(Head(b))
         THEN CodePoint(Head(a)) < CodePoint(Head(b))
         ELSE StrLess(Tail(a), Tail(b))

\* sorted(keys) (main.py line 208)
SortedKeys(keys) ==
    CHOOSE q \in [1..Cardinality(keys) -> keys] :
        \A m, n \in 1..Cardinality(keys) : m < n => StrLess(q[m], q[n])

\* main.py lines 233-246: the loop that writes the matching deals.
RECURSIVE WriteDeals(_, _, _, _)
WriteDeals(deals, user_cat, count, written) ==
    IF deals = <<>> THEN [written |-> written, raised |-> "none"]
    ELSE LET d == Head(deals)
         IN  IF /\ d.link # None
                /\ d.category # None
                /\ Lower(Strip(d.category[1])) = Lower(user_cat)
             THEN IF ~HasHref(d.link)
                  THEN [written |-> written, raised |-> "KeyError"]
                  ELSE WriteDeals(Tail(deals), user_cat, count + 1,
                          Append(written,
                                 [count |-> count,
                                  title |-> Strip(d.link[1].text),
                                  url |-> BaseUrl \o Strip(d.link[1].href[1])]))
             ELSE WriteDeals(Tail(deals), user_cat, count, written)

\* main.py lines 194-254.  user_cid is the number typed (0: not a valid
\* selection, which also stands for non-numeric input); can_open tells whether
\* open() succeeds (an OSError is printed, lines 247-248).
log_deal_information(pages, user_cid, can_open) ==
    LET deals == CollectDeals(pages)
        categories == SortedKeys(DOMAIN get_categories(deals))
    IN  IF ~(1 <= user_cid /\ user_cid <= Len(categories))
        THEN [status |-> "invalid", user_cat |-> None, written |-> <<>>, raised |-> "none"]
        ELSE IF ~can_open
        THEN [status |-> "os_error", user_cat |-> Some(categories[user_cid]),
              written |-> <<>>, raised |-> "none"]
        ELSE LET run == WriteDeals(deals, categories[user_cid], 1, <<>>)
             IN  [status |-> IF run.raised = "none" THEN "logged" ELSE "raised",
                  user_cat |-> Some(categories[user_cid]),
                  written |-> run.written, raised |-> run.raised]

(***************************************************************************)
(* Specifications                                                          *)
(***************************************************************************)

\* The variables a specification does not use stay at these values.
CacheIdle ==
    /\ paths = ConfiguredPaths(1)
    /\ soups = EmptyDict
    /\ last_fetch_time = 0
    /\ cycles = 0
    /\ now = 0
    /\ clock_ok = TRUE
    /\ outcome = "init"
    /\ result = EmptyDict
    /\ requests = <<>>
    /\ received = <<>>
    /\ pre_soups = EmptyDict
    /\ pre_last = 0
    /\ prev_outcome = "init"
    /\ prev_result = EmptyDict

StoreIdle == deal = None /\ store = None

ViewIdle == docs = <<>> /\ displayed = None /\ logged = None

\* The fetch cache: a scraper and any sequence of fetch_all calls.
Init == CacheInit /\ StoreIdle /\ ViewIdle

Next == FetchAll

Spec == Init /\ [][Next]_vars

\* ---- extract_store on one listing node ----

\* Length bounds of the texts of a node's .topictitle and .topictitle_retailer.
MaxTitleLen == 4
MaxRetailerLen == 2

TitleChars == {"[", "]", "a", " ", "\n"}
RetailerChars == {"a", " "}

Optional(S) == {None} \cup {Some(x) : x \in S}

StoreDeals ==
    [retailer : Optional(StringsUpTo(RetailerChars, MaxRetailerLen)),
     topictitle : Optional(StringsUpTo(TitleChars, MaxTitleLen))]

InitStore == CacheIdle /\ ViewIdle /\ deal \in StoreDeals /\ store = None

ExtractStore ==
    /\ store = None
    /\ store' = Some(extract_store(deal))
    /\ UNCHANGED <<deal, cacheVars, viewVars>>

NextStore == ExtractStore

SpecStore == InitStore /\ [][NextStore]_vars

\* ---- display_latest_deals on the returned documents ----

FieldText == <<" ", "5", " ">>
TitleText == <<"a", " ">>
HrefText == <<" ", "/", "d">>

Links ==
    {None, Some([text |-> TitleText, href |-> None]),
     Some([text |-> TitleText, href |-> Some(HrefText)])}

\* Every combination of present and absent sub-nodes of a listing node.
DisplayDeals ==
    [sticky : BOOLEAN,
     retailer : Optional({<<"a">>}),
     topictitle : Optional({<<"[", "a", "]">>}),
     link : Links,
     votes : Optional({FieldText}),
     username : Optional({FieldText}),
     category : Optional({FieldText}),
     timestamp : Optional({FieldText}),
     replies : Optional({FieldText}),
     views : Optional({FieldText})]

\* Nodes whose six plain fields are all present or all absent.
UniformDeals ==
    {d \in DisplayDeals :
        \A f \in {"username", "category", "timestamp", "replies", "views"} :
            (d[f] = None) <=> (d.votes = None)}

DisplayDocs ==
    {<< <<d>> >> : d \in DisplayDeals}
        \cup {<< <<d[1]>>, <<d[2]>> >> : d \in UniformDeals \X UniformDeals}

InitDisplay == CacheIdle /\ StoreIdle /\ docs \in DisplayDocs /\ displayed = None /\ logged = None

\* display_latest_deals(scraper): fetch_all raises FetchError or returns docs.
DisplayLatestDeals ==
    /\ displayed = None
    /\ \E fetched \in BOOLEAN :
          displayed' = IF fetched
                       THEN Some(display_latest_deals(docs))
                       ELSE Some([printed |-> <<>>, raised |-> "FetchError"])
    /\ UNCHANGED <<docs, logged, cacheVars, storeVars>>

NextDisplay == DisplayLatestDeals

SpecDisplay == InitDisplay /\ [][NextDisplay]_vars

\* ---- log_deal_information on the returned documents ----

\* Listing nodes over all returned documents.
MaxDeals == 3

Digits == <<"1", "2", "3", "4", "5", "6">>

\* The node at position i of the listing: its title names the position.
LogDeal(kind, i) ==
    [sticky |-> kind.sticky,
     retailer |-> None,
     topictitle |-> None,
     link |-> CASE kind.link = "none" -> None
                [] kind.link = "nohref" -> Some([text |-> <<" ", Digits[i]>>, href |-> None])
                [] OTHER -> Some([text |-> <<" ", Digits[i]>>,
                                  href |-> Some(<<"/", Digits[i], " ">>)]),
     votes |-> None, username |-> None,
     category |-> kind.category,
     timestamp |-> None, replies |-> None, views |-> None]

LogKinds ==
    [sticky : BOOLEAN,
     link : {"none", "nohref", "href"},
     category : Optional({<<"T">>, <<" ", "t">>, <<"F">>})]

\* Two documents: the first k nodes on the first page, the rest on the second.
LogDocs ==
    {<< [i \in 1..x[2] |-> LogDeal(x[1][i], i)],
        [i \in 1..(Len(x[1]) - x[2]) |-> LogDeal(x[1][x[2] + i], x[2] + i)] >> :
        x \in {y \in (UNION {[1..n -> LogKinds] : n \in 0..MaxDeals}) \X (0..MaxDeals) :
                  y[2] <= Len(y[1])}}

InitLog == CacheIdle /\ StoreIdle /\ docs \in LogDocs /\ displayed = None /\ logged = None

\* log_deal_information(scraper): fetch_all raises FetchError or returns docs.
LogDealInformation ==
    /\ logged = None
    /\ \E fetched \in BOOLEAN, user_cid \in 0..MaxDeals, can_open \in BOOLEAN :
          logged' = IF fetched
                    THEN Some(log_deal_information(docs, user_cid, can_open))
                    ELSE Some([status |-> "FetchError", user_cat |-> None,
                               written |-> <<>>, raised |-> "FetchError"])
    /\ UNCHANGED <<docs, displayed, cacheVars, storeVars>>

NextLog == LogDealInformation

SpecLog == InitLog /\ [][NextLog]_vars

(***************************************************************************)
(* Claims about the fetch cache, checked under Spec.                       *)
(***************************************************************************)

PathSet == {paths[i] : i \in 1..Len(paths)}

\* C1: between calls the cache is either empty or holds exactly one entry for
\* every configured target; a refresh failing on target k > 1 leaves none of
\* the entries of targets 1..k-1 behind.
C1_CacheEmptyOrComplete ==
    \/ DOMAIN soups = {}
    \/ DOMAIN soups = PathSet

\* C2: a call issues network requests if and only if the cache was empty or
\* now - last_fetch_time >= 120 (so at exactly 120 it refreshes); a call that
\* does not refresh issues no request, leaves cache and timestamp unchanged
\* and returns the mapping the previous call returned.
C2_RefreshIffStale ==
    outcome # "init" =>
        /\ (requests # <<>>) <=> (DOMAIN pre_soups = {} \/ now - pre_last >= 120)
        /\ requests = <<>> =>
              /\ outcome = "returned"
              /\ soups = pre_soups
              /\ last_fetch_time = pre_last
              /\ result = pre_soups
              /\ prev_outcome = "returned" => result = prev_result

\* C2 witness: a call one second short of the TTL (elapsed 119) was served
\* from a complete cache without any request.
C2_Witness ==
    /\ outcome = "returned"
    /\ requests = <<>>
    /\ now - last_fetch_time = 119
    /\ DOMAIN result = PathSet

\* C3: after a call that raised FetchError the cache equals the
\* cache as it was before that call.
C3_FailedRefreshKeepsCache ==
    outcome = "raised" => soups = pre_soups

\* C4: last_fetch_time changes only in a call whose refresh succeeded for every
\* configured target; a call that raised and a call served from the cache
\* leave it as it was.
C4_TimestampOnlyOnSuccess ==
    outcome # "init" =>
        /\ last_fetch_time # pre_last =>
              /\ outcome = "returned"
              /\ requests = paths
              /\ \A i \in 1..Len(received) : received[i] = "ok"
        /\ outcome = "raised" => last_fetch_time = pre_last
        /\ requests = <<>> => last_fetch_time = pre_last

\* C4 witness: a refresh failed after an earlier one had succeeded, and the
\* timestamp is still the one of the successful refresh.
C4_Witness ==
    /\ outcome = "raised"
    /\ pre_last > 0
    /\ now # pre_last
    /\ last_fetch_time = pre_last

\* C5: the call after a call that raised FetchError never serves cached
\* content; it runs the refresh cycle again from the first configured target.
C5_RetryAfterFailure ==
    (prev_outcome = "raised" /\ outcome # "init") =>
        /\ requests # <<>>
        /\ requests[1] = paths[1]

\* C6: within one refresh the targets are requested in configured order, each
\* at most once; a failed request for target k is the last request of the
\* cycle and the call raises; without a failure every target is requested.
C6_SequentialShortCircuit ==
    outcome # "init" =>
        /\ Len(requests) <= Len(paths)
        /\ requests = SubSeq(paths, 1, Len(requests))
        /\ Len(received) = Len(requests)
        /\ \A k \in 1..Len(requests) :
              received[k] # "ok" => (k = Len(requests) /\ outcome = "raised")
        /\ (requests # <<>> /\ \A k \in 1..Len(requests) : received[k] = "ok")
              => (requests = paths /\ outcome = "returned")
        /\ outcome = "raised" =>
              (requests # <<>> /\ received[Len(received)] # "ok")

\* C6 witness: the second of at least three targets failed and the third was
\* never requested.
C6_Witness ==
    /\ outcome = "raised"
    /\ Len(paths) >= 3
    /\ Len(requests) = 2
    /\ received = <<"ok", "http_error">>

\* C10: while the clock readings never decrease and are all at least 120,
\* every call that returns hands out a mapping whose key set is exactly the
\* set of configured paths, whatever failed before.
C10_ReturnedMappingComplete ==
    (clock_ok /\ outcome = "returned") => DOMAIN result = PathSet

\* C10 witness: a call returned right after a call that failed midway through
\* a refresh, under a well-behaved clock.
C10_Witness ==
    /\ clock_ok
    /\ outcome = "returned"
    /\ prev_outcome = "raised"
    /\ DOMAIN pre_soups # {}
    /\ DOMAIN pre_soups # PathSet
    /\ DOMAIN result = PathSet

(***************************************************************************)
(* Claims about extraction, checked under SpecStore, SpecDisplay, SpecLog. *)
(***************************************************************************)

\* r is s without its leading and trailing whitespace.
IsTrimOf(r, s) ==
    \E i \in 1..(Len(s) + 1), j \in 0..Len(s) :
        /\ r = SubSeq(s, i, j)
        /\ \A k \in 1..Len(s) : (k < i \/ k > j) => s[k] \in {" ", "\n"}
        /\ r # <<>> => (r[1] \notin {" ", "\n"} /\ r[Len(r)] \notin {" ", "\n"})

\* The substrings of s that are s without its leading and trailing whitespace.
Trims(s) ==
    {r \in {SubSeq(s, i, j) : i \in 1..(Len(s) + 1), j \in 0..Len(s)} : IsTrimOf(r, s)}

\* t[i..j] is a bracket-delimited token [NAME]: NAME holds no "]" and, being a
\* name, no line break.
IsToken(t, i, j) ==
    /\ i < j
    /\ t[i] = "["
    /\ t[j] = "]"
    /\ \A k \in (i + 1)..(j - 1) : t[k] \notin {"]", "\n"}

HasToken(t) == \E i, j \in 1..Len(t) : IsToken(t, i, j)

\* name is the NAME of the first token of t.
IsFirstTokenName(name, t) ==
    \E i, j \in 1..Len(t) :
        /\ IsToken(t, i, j)
        /\ \A m, n \in 1..Len(t) : IsToken(t, m, n) => i <= m
        /\ name = SubSeq(t, i + 1, j - 1)

\* C8: the store is the trimmed text of the retailer node if there is one;
\* otherwise NAME of the first token [NAME] of the trimmed title text, if the
\* title node exists and has such a token; otherwise "n/a".
C8_StoreFallbackChain ==
    store # None =>
        IF deal.retailer # None
        THEN IsTrimOf(store[1], deal.retailer[1])
        ELSE IF /\ deal.topictitle # None
                /\ \E t \in Trims(deal.topictitle[1]) : HasToken(t)
             THEN \E t \in Trims(deal.topictitle[1]) : IsFirstTokenName(store[1], t)
             ELSE store[1] = <<"n", "/", "a">>

\* C8 witness: no retailer node, a title " [a]" whose token falls back to "a".
C8_Witness ==
    /\ deal.retailer = None
    /\ deal.topictitle = Some(<<" ", "[", "a", "]">>)
    /\ store = Some(<<"a">>)

\* All listing nodes of the documents, in page order then document order.
RECURSIVE ListingNodes(_)
ListingNodes(pages) ==
    IF pages = <<>> THEN <<>> ELSE Head(pages) \o ListingNodes(Tail(pages))

\* The positions of the nodes in S, in increasing order.
Ascending(S) ==
    CHOOSE f \in [1..Cardinality(S) -> S] :
        \A m, n \in 1..Cardinality(S) : m < n => f[m] < f[n]

\* The printed field of an optional sub-node.
ShowsField(shown, node) ==
    IF node = None THEN shown = <<"n", "/", "a">> ELSE IsTrimOf(shown, node[1])

\* C7: extraction never raises because of a missing sub-field or attribute:
\* every non-sticky node yields a record, each missing field shows as "n/a",
\* the others are intact, and the URL is present only when a title node with
\* an href exists.
C7_ExtractionNeverRaises ==
    (displayed # None /\ displayed[1].raised # "FetchError") =>
        LET nodes == ListingNodes(docs)
            shown == Ascending({i \in 1..Len(nodes) : ~nodes[i].sticky})
            out == displayed[1]
        IN  /\ out.raised = "none"
            /\ Len(out.printed) = Len(shown)
            /\ \A k \in 1..Len(out.printed) :
                  LET d == nodes[shown[k]]
                      r == out.printed[k]
                  IN  /\ ShowsField(r.votes, d.votes)
                      /\ ShowsField(r.username, d.username)
                      /\ ShowsField(r.category, d.category)
                      /\ ShowsField(r.timestamp, d.timestamp)
                      /\ ShowsField(r.replies, d.replies)
                      /\ ShowsField(r.views, d.views)
                      /\ IF d.link = None
                         THEN r.product = <<"n", "/", "a">>
                         ELSE IsTrimOf(r.product, d.link[1].text)
                      /\ IF d.link # None /\ d.link[1].href # None
                         THEN \E h \in Trims(d.link[1].href[1]) :
                                 r.url = <<"https://forums.redflagdeals.com">> \o h
                         ELSE r.url = <<"n", "/", "a">>

\* Two characters that differ at most in case.
SameLetter(a, b) == a = b \/ {a, b} = {"T", "t"} \/ {a, b} = {"F", "f"}

EqualIgnoringCase(a, b) ==
    Len(a) = Len(b) /\ \A i \in 1..Len(a) : SameLetter(a[i], b[i])

\* The node's trimmed category equals the label, case-insensitively.
CategoryIs(d, label) ==
    /\ d.category # None
    /\ \E c \in Trims(d.category[1]) : EqualIgnoringCase(c, label)

\* C9: whenever the export loop ran, the exported records are exactly the non-sticky nodes, in page order
\* then document order, that have a title and a category equal to the label
\* ignoring case; none is skipped or reordered; they are numbered 1, 2, ...
C9_FilteredSubsetExact ==
    (logged # None /\ logged[1].status \in {"logged", "raised"}) =>
        LET nodes == ListingNodes(docs)
            label == logged[1].user_cat[1]
            eligible == Ascending({i \in 1..Len(nodes) :
                                     /\ ~nodes[i].sticky
                                     /\ nodes[i].link # None
                                     /\ CategoryIs(nodes[i], label)})
            written == logged[1].written
        IN  /\ Len(written) = Len(eligible)
            /\ \A k \in 1..Len(written) :
                  /\ written[k].count = k
                  /\ IsTrimOf(written[k].title, nodes[eligible[k]].link[1].text)

====
